---- MODULE Spec2Model ----
(***************************************************************************)
(* Model of lib/errors.js of xmldom: the DOMException and ParseError       *)
(* constructors, the registry of exception names, the legacy numeric      *)
(* codes and the derived `code` property.                                  *)
(*                                                                         *)
(* JavaScript values are records [t, n, s]: t is the result of typeof      *)
(* (with "null" kept apart from "object"), s is the text of a string, and  *)
(* n is a number counted in halves (n = 3 is 1.5), so that integers and    *)
(* non-integers are both representable; NaN is the number whose s is       *)
(* "NaN".  An omitted argument is undefined, as in JavaScript.             *)
(* Error.captureStackTrace only attaches a `stack` and is left out.        *)
(***************************************************************************)
EXTENDS Integers, Sequences, FiniteSets, TLC

VARIABLES exc, call, outcome

vars == <<exc, call, outcome>>

\* ---------------------------------------------------------------- bounds
\* Largest integer number offered as an argument (with every integer from
\* -1 up to it).
MaxNum == 27

\* ------------------------------------------------------------ JS values
Undefined == [t |-> "undefined", n |-> 0, s |-> ""]
Null == [t |-> "null", n |-> 0, s |-> ""]
NaN == [t |-> "number", n |-> 0, s |-> "NaN"]
\* No own property of that key.
Absent == [t |-> "absent", n |-> 0, s |-> ""]

Bool(b) == [t |-> "boolean", n |-> IF b THEN 1 ELSE 0, s |-> ""]
\* The integer k.
Num(k) == [t |-> "number", n |-> 2 * k, s |-> ""]
\* The number h/2.
Halves(h) == [t |-> "number", n |-> h, s |-> ""]
Str(x) == [t |-> "string", n |-> 0, s |-> x]
Obj(i) == [t |-> "object", n |-> i, s |-> ""]

typeof(v) == IF v.t = "null" THEN "object" ELSE v.t

IsNaN(v) == v.t = "number" /\ v.s = "NaN"

\* v >= k and v <= k for a number v and an integer k; false for NaN.
GreaterEq(v, k) == ~IsNaN(v) /\ v.n >= 2 * k
LessEq(v, k) == ~IsNaN(v) /\ v.n <= 2 * k

\* a === b
StrictEquals(a, b) == a = b /\ ~IsNaN(a)

ToBoolean(v) ==
    CASE v.t = "undefined" -> FALSE
      [] v.t = "null" -> FALSE
      [] v.t = "boolean" -> v.n = 1
      [] v.t = "number" -> ~IsNaN(v) /\ v.n # 0
      [] v.t = "string" -> v.s # ""
      [] OTHER -> TRUE

\* Variant: a ?? b, defaulting only for undefined and null.
OrElse_Nullish(a, b) == IF a.t \in {"undefined", "null"} THEN b ELSE a

\* a || b
OrElse(a, b) == IF ToBoolean(a) THEN a ELSE b

\* Variant: the result starts one character late.
substring_SkipsOne(x, start) ==
    LET from == IF start < 0 THEN 0 ELSE IF start > Len(x) THEN Len(x) ELSE start
    IN  SubSeq(x, from + 2, Len(x))

\* String.prototype.substring(start) on the text x: start is clamped to
\* 0..length.
substring(x, start) ==
    LET from == IF start < 0 THEN 0 ELSE IF start > Len(x) THEN Len(x) ELSE start
    IN  SubSeq(x, from + 1, Len(x))

\* ------------------------------------------------------------- registry
\* The frozen object DOMExceptionName, as its entries in insertion order;
\* every key equals its value.
DOMExceptionName ==
    << "Error", "IndexSizeError", "DomstringSizeError", "HierarchyRequestError",
       "WrongDocumentError", "InvalidCharacterError", "NoDataAllowedError",
       "NoModificationAllowedError", "NotFoundError", "NotSupportedError",
       "InUseAttributeError", "InvalidStateError", "SyntaxError",
       "InvalidModificationError", "NamespaceError", "InvalidAccessError",
       "ValidationError", "TypeMismatchError", "SecurityError", "NetworkError",
       "AbortError", "URLMismatchError", "QuotaExceededError", "TimeoutError",
       "InvalidNodeTypeError", "DataCloneError", "EncodingError",
       "NotReadableError", "UnknownError", "ConstraintError", "DataError",
       "TransactionInactiveError", "ReadOnlyError", "VersionError",
       "OperationError", "NotAllowedError", "OptOutError" >>

\* DOMExceptionName.Error
DOMExceptionName_Error == DOMExceptionName[1]

\* Object.keys(DOMExceptionName): a JS array, index 0 is TLA+ index 1.
DOMExceptionNames == DOMExceptionName

\* arr[key] for a JS array of strings and any number key: an element for an
\* integer index inside the array, undefined otherwise.
ElementAt(arr, key) ==
    IF /\ ~IsNaN(key)
       /\ key.n % 2 = 0
       /\ key.n \div 2 >= 0
       /\ key.n \div 2 < Len(arr)
    THEN Str(arr[(key.n \div 2) + 1])
    ELSE Undefined

\* arr.indexOf(v): the first index whose element === v, or -1.
indexOf(arr, v) ==
    LET hits == {i \in 1..Len(arr) : StrictEquals(Str(arr[i]), v)}
    IN  IF hits = {} THEN Num(-1)
        ELSE Num((CHOOSE i \in hits : \A j \in hits : i <= j) - 1)

\* Variant: the lower limit is exclusive.
isValidDomExceptionCode_ExclusiveLower(value) ==
    typeof(value) = "number" /\ ~LessEq(value, 1) /\ ~IsNaN(value) /\ LessEq(value, 25)

\* Variant: the upper limit is one too large.
isValidDomExceptionCode_UpTo26(value) ==
    typeof(value) = "number" /\ GreaterEq(value, 1) /\ LessEq(value, 26)

isValidDomExceptionCode(value) ==
    typeof(value) = "number" /\ GreaterEq(value, 1) /\ LessEq(value, 25)

\* Variant: the suffix compared is one character short.
endsWithError_ShortSuffix(value) ==
    /\ typeof(value) = "string"
    /\ substring(value.s, Len(value.s) - Len(DOMExceptionName_Error) + 1)
           = DOMExceptionName_Error

\* Variant: any string is accepted as a name.
endsWithError_AnyString(value) == typeof(value) = "string"

endsWithError(value) ==
    /\ typeof(value) = "string"
    /\ substring(value.s, Len(value.s) - Len(DOMExceptionName_Error))
           = DOMExceptionName_Error

\* ----------------------------------------------------------- prototypes
\* Variant: ParseError.prototype is created from DOMException.prototype.
extendError_FromDOMException(constructor, writableName) ==
    [ parent |-> IF constructor = "ParseError" THEN "DOMException.prototype"
                 ELSE "Error.prototype",
      constructor |-> constructor,
      name |-> Str(constructor),
      nameWritable |-> ToBoolean(writableName) ]

\* extendError(constructor, writableName): the object assigned to
\* constructor.prototype, Object.create(Error.prototype, {constructor, name}).
\* A descriptor's `writable: undefined` is a non-writable property.
extendError(constructor, writableName) ==
    [ parent |-> "Error.prototype",
      constructor |-> constructor,
      name |-> Str(constructor),
      nameWritable |-> ToBoolean(writableName) ]

\* extendError(DOMException, true) and extendError(ParseError).
Prototype(p) ==
    CASE p = "DOMException.prototype" -> extendError("DOMException", Bool(TRUE))
      [] p = "ParseError.prototype" -> extendError("ParseError", Undefined)

\* The prototype chain: [[Prototype]] of each prototype object.
ParentOf(p) ==
    CASE p \in {"DOMException.prototype", "ParseError.prototype"} -> Prototype(p).parent
      [] p = "Error.prototype" -> "Object.prototype"
      [] OTHER -> "null"

\* Object.defineProperties(DOMException.prototype, {code: {get}}): the
\* prototypes that carry the `code` accessor (a getter and no setter).
HasCodeAccessor(p) == p = "DOMException.prototype"

RECURSIVE ChainHas(_, _)
\* Whether prototype q is p or is on p's prototype chain.
ChainHas(p, q) ==
    IF p = "null" THEN FALSE
    ELSE IF p = q THEN TRUE
    ELSE ChainHas(ParentOf(p), q)

\* An instance: its [[Prototype]] and its own properties (Absent: none).
NewObject(p) == [proto |-> p, name |-> Absent, message |-> Absent, locator |-> Absent]

\* No exception exists.
NoInstance == NewObject("null")

\* o instanceof C, for the constructor named C.
InstanceOf(o, C) == ChainHas(o.proto, C \o ".prototype")

\* ---------------------------------------------------- the `code` getter
\* Variant: the index is returned without the range check.
code_NoRangeCheck(thisName) == indexOf(DOMExceptionNames, thisName)

\* get: function () { var code = DOMExceptionNames.indexOf(this.name); ... }
\* given the value of this.name.
code(thisName) ==
    LET c == indexOf(DOMExceptionNames, thisName)
    IN  IF isValidDomExceptionCode(c) THEN c ELSE Num(0)

\* The `name` found on the prototype chain starting at p: the data property
\* extendError defined, else Error.prototype.name.
InheritedName(p) ==
    IF p \in {"DOMException.prototype", "ParseError.prototype"}
    THEN Prototype(p).name
    ELSE IF p = "Error.prototype" THEN Str("Error")
    ELSE Undefined

\* Whether that inherited `name` is writable.
InheritedNameWritable(p) ==
    IF p \in {"DOMException.prototype", "ParseError.prototype"}
    THEN Prototype(p).nameWritable
    ELSE TRUE

RECURSIVE ChainHasCodeAccessor(_)
\* Whether p or a prototype on its chain carries the `code` accessor.
ChainHasCodeAccessor(p) ==
    IF p = "null" THEN FALSE
    ELSE IF HasCodeAccessor(p) THEN TRUE
    ELSE ChainHasCodeAccessor(ParentOf(p))

\* o.name: the own property first, then the prototype chain.
GetName(o) == IF o.name # Absent THEN o.name ELSE InheritedName(o.proto)

\* o[key]: own property first, then the prototype chain.
Get(o, key) ==
    CASE key = "name" -> GetName(o)
      [] key = "message" ->
            IF o.message # Absent THEN o.message
            ELSE IF ChainHas(o.proto, "Error.prototype") THEN Str("") ELSE Undefined
      [] key = "locator" ->
            IF o.locator # Absent THEN o.locator ELSE Undefined
      [] key = "code" ->
            IF ChainHasCodeAccessor(o.proto) THEN code(GetName(o)) ELSE Undefined

\* Whether the assignment o[key] = v takes effect: not when the inherited
\* property is a non-writable data property or an accessor without a setter
\* (a TypeError in strict code, silently ignored otherwise).
CanSet(o, key) ==
    CASE key = "name" -> o.name # Absent \/ InheritedNameWritable(o.proto)
      [] key = "code" -> ~ChainHasCodeAccessor(o.proto)
      [] OTHER -> TRUE

\* The object after o[key] = v, for the keys an instance record holds.
Set(o, key, v) ==
    IF CanSet(o, key) /\ key \in {"name", "message", "locator"}
    THEN [o EXCEPT ![key] = v]
    ELSE o

\* ---------------------------------------------------------- constructors
\* new DOMException(messageOrCode, nameOrMessage)
DOMException(messageOrCode, nameOrMessage) ==
    LET this == NewObject("DOMException.prototype")
    IN  IF isValidDomExceptionCode(messageOrCode)
        THEN Set(Set(this, "name", ElementAt(DOMExceptionNames, messageOrCode)),
                 "message", OrElse(nameOrMessage, Str("")))
        ELSE Set(Set(this, "message", messageOrCode),
                 "name", IF endsWithError(nameOrMessage) THEN nameOrMessage
                         ELSE Str(DOMExceptionName_Error))

\* new ParseError(message, locator)
ParseError(message, locator) ==
    Set(Set(NewObject("ParseError.prototype"), "message", message),
        "locator", locator)

\* Variant: two neighbouring constants carry each other's value.
ExceptionCode_Swapped ==
    [ INDEX_SIZE_ERR |-> 1, DOMSTRING_SIZE_ERR |-> 2, HIERARCHY_REQUEST_ERR |-> 3,
      WRONG_DOCUMENT_ERR |-> 4, INVALID_CHARACTER_ERR |-> 5, NO_DATA_ALLOWED_ERR |-> 6,
      NO_MODIFICATION_ALLOWED_ERR |-> 7, NOT_FOUND_ERR |-> 8, NOT_SUPPORTED_ERR |-> 9,
      INUSE_ATTRIBUTE_ERR |-> 10, INVALID_STATE_ERR |-> 11, SYNTAX_ERR |-> 13,
      INVALID_MODIFICATION_ERR |-> 12, NAMESPACE_ERR |-> 14, INVALID_ACCESS_ERR |-> 15,
      VALIDATION_ERR |-> 16, TYPE_MISMATCH_ERR |-> 17, SECURITY_ERR |-> 18,
      NETWORK_ERR |-> 19, ABORT_ERR |-> 20, URL_MISMATCH_ERR |-> 21,
      QUOTA_EXCEEDED_ERR |-> 22, TIMEOUT_ERR |-> 23, INVALID_NODE_TYPE_ERR |-> 24,
      DATA_CLONE_ERR |-> 25 ]

\* The object ExceptionCode.
ExceptionCode ==
    [ INDEX_SIZE_ERR |-> 1, DOMSTRING_SIZE_ERR |-> 2, HIERARCHY_REQUEST_ERR |-> 3,
      WRONG_DOCUMENT_ERR |-> 4, INVALID_CHARACTER_ERR |-> 5, NO_DATA_ALLOWED_ERR |-> 6,
      NO_MODIFICATION_ALLOWED_ERR |-> 7, NOT_FOUND_ERR |-> 8, NOT_SUPPORTED_ERR |-> 9,
      INUSE_ATTRIBUTE_ERR |-> 10, INVALID_STATE_ERR |-> 11, SYNTAX_ERR |-> 12,
      INVALID_MODIFICATION_ERR |-> 13, NAMESPACE_ERR |-> 14, INVALID_ACCESS_ERR |-> 15,
      VALIDATION_ERR |-> 16, TYPE_MISMATCH_ERR |-> 17, SECURITY_ERR |-> 18,
      NETWORK_ERR |-> 19, ABORT_ERR |-> 20, URL_MISMATCH_ERR |-> 21,
      QUOTA_EXCEEDED_ERR |-> 22, TIMEOUT_ERR |-> 23, INVALID_NODE_TYPE_ERR |-> 24,
      DATA_CLONE_ERR |-> 25 ]

\* The static properties DOMException.X = ExceptionCode.X.
DOMException_static ==
    [ INDEX_SIZE_ERR |-> ExceptionCode.INDEX_SIZE_ERR,
      DOMSTRING_SIZE_ERR |-> ExceptionCode.DOMSTRING_SIZE_ERR,
      HIERARCHY_REQUEST_ERR |-> ExceptionCode.HIERARCHY_REQUEST_ERR,
      WRONG_DOCUMENT_ERR |-> ExceptionCode.WRONG_DOCUMENT_ERR,
      INVALID_CHARACTER_ERR |-> ExceptionCode.INVALID_CHARACTER_ERR,
      NO_DATA_ALLOWED_ERR |-> ExceptionCode.NO_DATA_ALLOWED_ERR,
      NO_MODIFICATION_ALLOWED_ERR |-> ExceptionCode.NO_MODIFICATION_ALLOWED_ERR,
      NOT_FOUND_ERR |-> ExceptionCode.NOT_FOUND_ERR,
      NOT_SUPPORTED_ERR |-> ExceptionCode.NOT_SUPPORTED_ERR,
      INUSE_ATTRIBUTE_ERR |-> ExceptionCode.INUSE_ATTRIBUTE_ERR,
      INVALID_STATE_ERR |-> ExceptionCode.INVALID_STATE_ERR,
      SYNTAX_ERR |-> ExceptionCode.SYNTAX_ERR,
      INVALID_MODIFICATION_ERR |-> ExceptionCode.INVALID_MODIFICATION_ERR,
      NAMESPACE_ERR |-> ExceptionCode.NAMESPACE_ERR,
      INVALID_ACCESS_ERR |-> ExceptionCode.INVALID_ACCESS_ERR,
      VALIDATION_ERR |-> ExceptionCode.VALIDATION_ERR,
      TYPE_MISMATCH_ERR |-> ExceptionCode.TYPE_MISMATCH_ERR,
      SECURITY_ERR |-> ExceptionCode.SECURITY_ERR,
      NETWORK_ERR |-> ExceptionCode.NETWORK_ERR,
      ABORT_ERR |-> ExceptionCode.ABORT_ERR,
      URL_MISMATCH_ERR |-> ExceptionCode.URL_MISMATCH_ERR,
      QUOTA_EXCEEDED_ERR |-> ExceptionCode.QUOTA_EXCEEDED_ERR,
      TIMEOUT_ERR |-> ExceptionCode.TIMEOUT_ERR,
      INVALID_NODE_TYPE_ERR |-> ExceptionCode.INVALID_NODE_TYPE_ERR,
      DATA_CLONE_ERR |-> ExceptionCode.DATA_CLONE_ERR ]

\* ------------------------------------------------------- argument values
Numbers ==
    {Num(k) : k \in -1..MaxNum}
        \cup {Halves(1), Halves(3), Halves(49), Halves(51), Num(99), NaN}

NameStrings == {Str(DOMExceptionNames[i]) : i \in 1..Len(DOMExceptionNames)}

OtherStrings ==
    {Str(""), Str("m"), Str("x"), Str("bad token"), Str("Err"), Str("rror"),
     Str("error"), Str("ErrorX"), Str("FooError"), Str("ParseError")}

Strings == NameStrings \cup OtherStrings

NonPrimitives == {Undefined, Null, Bool(TRUE), Bool(FALSE), Obj(1), Obj(2)}

\* What a caller may pass as an argument or assign to a property.
Values == Numbers \cup Strings \cup NonPrimitives

\* What a holder of the exception may assign to its name.
NameWrites ==
    NameStrings
        \cup {Str(""), Str("x"), Str("FooError"), Undefined, Null, Num(3), NaN, Obj(1)}

\* Locators are opaque to this module.
Locators == {Undefined, Null, Obj(1)}

NoCall == [op |-> "none", a |-> Undefined, b |-> Undefined]

\* --------------------------------------------------------- state machine
\* exc: the exception instance in flight (NoInstance: none); call: the last
\* operation and its inputs; outcome: what the parser's recovery routine did
\* with exc ("none": not caught yet).
Init ==
    /\ exc = NoInstance
    /\ call = NoCall
    /\ outcome = "none"

\* exc = new DOMException(messageOrCode, nameOrMessage)
NewDOMException ==
    /\ exc = NoInstance
    /\ \E messageOrCode \in Values, nameOrMessage \in Values :
          /\ exc' = DOMException(messageOrCode, nameOrMessage)
          /\ call' = [op |-> "DOMException", a |-> messageOrCode, b |-> nameOrMessage]
    /\ outcome' = "none"

\* exc = new ParseError(message, locator)
NewParseError ==
    /\ exc = NoInstance
    /\ \E message \in Strings \cup {Undefined}, locator \in Locators :
          /\ exc' = ParseError(message, locator)
          /\ call' = [op |-> "ParseError", a |-> message, b |-> locator]
    /\ outcome' = "none"

\* exc.name = v, by whoever holds the exception.
SetName ==
    /\ exc # NoInstance
    /\ outcome = "none"
    /\ \E v \in NameWrites :
          /\ exc' = Set(exc, "name", v)
          /\ call' = [op |-> "setName", a |-> v, b |-> Undefined]
    /\ UNCHANGED outcome

\* exc.code = v, by whoever holds the exception.
SetCode ==
    /\ exc # NoInstance
    /\ outcome = "none"
    /\ \E v \in {Num(0), Num(3), Num(26), Undefined} :
          /\ exc' = Set(exc, "code", v)
          /\ call' = [op |-> "setCode", a |-> v, b |-> Undefined]
    /\ UNCHANGED outcome

\* The parser's recovery routine catches exc: a ParseError is re-raised, any
\* other value is reported as a recoverable diagnostic.
Recover ==
    /\ exc # NoInstance
    /\ outcome = "none"
    /\ outcome' = IF InstanceOf(exc, "ParseError") THEN "rethrown" ELSE "reported"
    /\ call' = [op |-> "recover", a |-> Undefined, b |-> Undefined]
    /\ UNCHANGED exc

\* The exception has been handled and is dropped.
Release ==
    /\ outcome # "none"
    /\ exc' = NoInstance
    /\ call' = NoCall
    /\ outcome' = "none"

Next ==
    \/ NewDOMException
    \/ NewParseError
    \/ SetName
    \/ SetCode
    \/ Recover
    \/ Release

Spec == Init /\ [][Next]_vars

\* ------------------------------------------------ vocabulary of the claims
\* A number n with 1 <= n <= 25 (numbers are counted in halves).
InLegacyRange(v) == v.t = "number" /\ v.s # "NaN" /\ v.n >= 2 /\ v.n <= 50

NonEmptyString(v) == v.t = "string" /\ v.s # ""

\* The text x ends with the five characters "Error".
HasErrorSuffix(x) == Len(x) >= 5 /\ SubSeq(x, Len(x) - 4, Len(x)) = "Error"

\* The position (from 0) of the kind name x in the registry.
PositionOf(x) == CHOOSE i \in 0..(Len(DOMExceptionNames) - 1) : DOMExceptionNames[i + 1] = x

\* The legacy code of the kind name x: its position when in 1..25, else 0.
LegacyCodeOf(x) == IF PositionOf(x) \in 1..25 THEN PositionOf(x) ELSE 0

Constructed == call.op = "DOMException"

\* ------------------------------------------------------------------ C1
\* C1: for every integer n in 1..25 and non-empty string m,
\* new DOMException(n, m) has name = the registry name at position n,
\* message = m and code = n.
C1_LegacyCodeConstruction ==
    \A n \in 1..25 :
        (Constructed /\ call.a = Num(n) /\ NonEmptyString(call.b))
            => /\ Get(exc, "name") = Str(DOMExceptionNames[n + 1])
               /\ Get(exc, "message") = call.b
               /\ Get(exc, "code") = Num(n)

C1_Witness ==
    /\ Constructed
    /\ call.a = Num(25)
    /\ call.b = Str("m")
    /\ Get(exc, "name") = Str("DataCloneError")
    /\ Get(exc, "code") = Num(25)

\* ------------------------------------------------------------------ C2
\* C2: when the first argument lies outside the closed range 1..25 (0, 26,
\* 99, negative, NaN, a string, an object, omitted), the message is the first
\* argument itself, unchanged and uncoerced, and the second argument is not
\* used as the message.
C2_OutOfRangeIsMessage ==
    (Constructed /\ ~InLegacyRange(call.a))
        => /\ Get(exc, "message") = call.a
           /\ exc.message = call.a
           /\ (call.b # call.a => Get(exc, "message") # call.b)

C2_Witness ==
    /\ Constructed
    /\ call.a = Num(99)
    /\ call.b = Str("x")
    /\ Get(exc, "message") = Num(99)
    /\ typeof(Get(exc, "message")) = "number"

\* ------------------------------------------------------------------ C3
\* The name and the code the claim C3 expects for a second argument that is
\* the registry kind name K.
C3_Expected(K) ==
    /\ Get(exc, "name") = Str(K)
    /\ Get(exc, "code") = Num(LegacyCodeOf(K))

\* C3 as stated: for every registry kind name K ending in "Error" and ANY
\* first argument, new DOMException(anyMessage, K) has name = K and code =
\* the registry position of K when in 1..25, else 0.
C3_AnyMessageKeepsName ==
    \A i \in 1..Len(DOMExceptionNames) :
        LET K == DOMExceptionNames[i]
        IN  (Constructed /\ HasErrorSuffix(K) /\ call.b = Str(K)) => C3_Expected(K)

\* C3 amended: the same for every first argument that is not a number in the
\* range 1..25 (a number in that range selects legacy-code mode, where the
\* second argument is the message).
C3_NameMessageModeKeepsName ==
    \A i \in 1..Len(DOMExceptionNames) :
        LET K == DOMExceptionNames[i]
        IN  (Constructed /\ HasErrorSuffix(K) /\ call.b = Str(K) /\ ~InLegacyRange(call.a))
                => C3_Expected(K)

C3_Witness ==
    /\ Constructed
    /\ call.a = Str("bad token")
    /\ call.b = Str("SyntaxError")
    /\ Get(exc, "name") = Str("SyntaxError")
    /\ Get(exc, "code") = Num(12)

\* ------------------------------------------------------------------ C4
\* C4: in name/message mode (first argument not a number in 1..25), a second
\* argument that is omitted, a string not ending in "Error", or not a string
\* gives name = "Error" and code = 0.
C4_DefaultName ==
    (/\ Constructed
     /\ ~InLegacyRange(call.a)
     /\ \/ call.b = Undefined
        \/ (call.b.t = "string" /\ ~HasErrorSuffix(call.b.s))
        \/ call.b.t # "string")
        => /\ Get(exc, "name") = Str("Error")
           /\ Get(exc, "code") = Num(0)

C4_Witness ==
    /\ Constructed
    /\ call.a = Str("bad token")
    /\ call.b = Str("ErrorX")
    /\ Get(exc, "name") = Str("Error")
    /\ Get(exc, "code") = Num(0)

\* ------------------------------------------------------------------ C5
\* The kind name each legacy constant stands for.
KindOfConstant ==
    [ INDEX_SIZE_ERR |-> "IndexSizeError", DOMSTRING_SIZE_ERR |-> "DomstringSizeError",
      HIERARCHY_REQUEST_ERR |-> "HierarchyRequestError",
      WRONG_DOCUMENT_ERR |-> "WrongDocumentError",
      INVALID_CHARACTER_ERR |-> "InvalidCharacterError",
      NO_DATA_ALLOWED_ERR |-> "NoDataAllowedError",
      NO_MODIFICATION_ALLOWED_ERR |-> "NoModificationAllowedError",
      NOT_FOUND_ERR |-> "NotFoundError", NOT_SUPPORTED_ERR |-> "NotSupportedError",
      INUSE_ATTRIBUTE_ERR |-> "InUseAttributeError",
      INVALID_STATE_ERR |-> "InvalidStateError", SYNTAX_ERR |-> "SyntaxError",
      INVALID_MODIFICATION_ERR |-> "InvalidModificationError",
      NAMESPACE_ERR |-> "NamespaceError", INVALID_ACCESS_ERR |-> "InvalidAccessError",
      VALIDATION_ERR |-> "ValidationError", TYPE_MISMATCH_ERR |-> "TypeMismatchError",
      SECURITY_ERR |-> "SecurityError", NETWORK_ERR |-> "NetworkError",
      ABORT_ERR |-> "AbortError", URL_MISMATCH_ERR |-> "URLMismatchError",
      QUOTA_EXCEEDED_ERR |-> "QuotaExceededError", TIMEOUT_ERR |-> "TimeoutError",
      INVALID_NODE_TYPE_ERR |-> "InvalidNodeTypeError",
      DATA_CLONE_ERR |-> "DataCloneError" ]

\* C5: each of the 25 legacy constants, in ExceptionCode and as a static
\* property of DOMException, equals the registry position of its kind name;
\* the 25 values are exactly 1..25 without duplicates; and an exception
\* built from a constant (with any second argument) reports that constant as
\* its code.
C5_ConstantsMatchRegistry ==
    /\ DOMAIN ExceptionCode = DOMAIN KindOfConstant
    /\ DOMAIN DOMException_static = DOMAIN KindOfConstant
    /\ Cardinality(DOMAIN ExceptionCode) = 25
    /\ {ExceptionCode[c] : c \in DOMAIN ExceptionCode} = 1..25
    /\ \A c \in DOMAIN KindOfConstant :
          /\ ExceptionCode[c] = PositionOf(KindOfConstant[c])
          /\ DOMException_static[c] = ExceptionCode[c]
          /\ (Constructed /\ call.a = Num(DOMException_static[c]))
                => /\ Get(exc, "code") = Num(ExceptionCode[c])
                   /\ Get(exc, "name") = Str(KindOfConstant[c])

C5_Witness ==
    /\ Constructed
    /\ call.a = Num(DOMException_static.SYNTAX_ERR)
    /\ Get(exc, "name") = Str("SyntaxError")
    /\ Get(exc, "code") = Num(12)

\* ------------------------------------------------------------------ C6
\* C6: the name of a DOMException is one of the registry's kind names for
\* every pair of constructor arguments; malformed input never produces an
\* undefined name or a name absent from the registry.
C6_NameAlwaysRegistered ==
    Constructed => Get(exc, "name") \in NameStrings

\* ------------------------------------------------------------------ C7
\* C7: at every moment of a DOMException's life, also after its name has
\* been reassigned or a write to code was attempted, code reads as a value
\* in {0} \cup 1..25 computed from the current name: the registry position
\* of the name when that position is in 1..25, otherwise 0.
C7_CodeDerivedFromName ==
    InstanceOf(exc, "DOMException") =>
        LET nm == Get(exc, "name")
            c == Get(exc, "code")
        IN  /\ c \in {Num(k) : k \in 0..25}
            /\ \A k \in 1..25 : (nm = Str(DOMExceptionNames[k + 1])) => c = Num(k)
            /\ (\A k \in 1..25 : nm # Str(DOMExceptionNames[k + 1])) => c = Num(0)

\* new DOMException(1, 3) has name "IndexSizeError" and code 1; after its
\* name is reassigned to "SyntaxError" its code reads 12.  (A message 3 with
\* the name "SyntaxError" cannot come from construction alone.)
C7_Witness ==
    /\ InstanceOf(exc, "DOMException")
    /\ call.op = "setName"
    /\ call.a = Str("SyntaxError")
    /\ Get(exc, "message") = Num(3)
    /\ Get(exc, "name") = Str("SyntaxError")
    /\ Get(exc, "code") = Num(12)

\* ------------------------------------------------------------------ C8
\* C8: a value is never both a ParseError and a DOMException; a ParseError
\* carries only message and locator, reads no code, and its name stays
\* "ParseError" also after an attempted write; and the recovery routine,
\* which re-raises exactly the ParseError values, never re-raises a
\* DOMException and never absorbs a ParseError.
C8_ParseErrorDistinct ==
    /\ ~(InstanceOf(exc, "ParseError") /\ InstanceOf(exc, "DOMException"))
    /\ exc # NoInstance
          => (InstanceOf(exc, "ParseError") \/ InstanceOf(exc, "DOMException"))
    /\ InstanceOf(exc, "ParseError")
          => /\ exc.name = Absent
             /\ exc.message # Absent
             /\ exc.locator # Absent
             /\ Get(exc, "name") = Str("ParseError")
             /\ Get(exc, "code") = Undefined
    /\ outcome = "rethrown" => ~InstanceOf(exc, "DOMException")
    /\ outcome = "reported" => ~InstanceOf(exc, "ParseError")

C8_Witness ==
    /\ outcome = "rethrown"
    /\ InstanceOf(exc, "ParseError")
    /\ Get(exc, "message") = Str("bad token")
    /\ Get(exc, "locator") = Obj(1)

\* ------------------------------------------------------------------ C9
\* C9 as stated: in legacy-code mode (first argument a number in 1..25) the
\* message is of string type for every second argument, and is the empty
\* string when the second argument is absent.
C9_LegacyMessageIsString ==
    (Constructed /\ InLegacyRange(call.a))
        => /\ typeof(Get(exc, "message")) = "string"
           /\ call.b = Undefined => Get(exc, "message") = Str("")

\* The values that convert to false.
Falsy == {Undefined, Null, Bool(FALSE), Num(0), NaN, Str("")}

\* C9 amended: in legacy-code mode the message is the second argument itself,
\* unchanged and uncoerced, when that argument is truthy, and the empty
\* string when it is absent or any other falsy value (null, false, 0, NaN,
\* ""); so it is of string type when the second argument is a string or falsy.
C9_LegacyMessageIsArgumentOrEmpty ==
    (Constructed /\ InLegacyRange(call.a))
        => /\ call.b \in Falsy => Get(exc, "message") = Str("")
           /\ call.b \notin Falsy => Get(exc, "message") = call.b
           /\ (call.b.t = "string" \/ call.b \in Falsy)
                 => typeof(Get(exc, "message")) = "string"

C9_Witness ==
    /\ Constructed
    /\ call.a = Num(3)
    /\ call.b = Undefined
    /\ Get(exc, "name") = Str("HierarchyRequestError")
    /\ Get(exc, "code") = Num(3)
    /\ Get(exc, "message") = Str("")

\* ----------------------------------------------------------------- C10
\* C10: for every integer n in 1..25 and every non-empty string m,
\* new DOMException(n, m) and new DOMException(m, nameAt(n)) have the same
\* name, message and code.
C10_ModesAgree ==
    \A n \in 1..25 :
        (Constructed /\ call.a = Num(n) /\ NonEmptyString(call.b))
            => LET other == DOMException(call.b, Str(DOMExceptionNames[n + 1]))
               IN  /\ Get(other, "name") = Get(exc, "name")
                   /\ Get(other, "message") = Get(exc, "message")
                   /\ Get(other, "code") = Get(exc, "code")

C10_Witness ==
    /\ Constructed
    /\ call.a = Num(12)
    /\ call.b = Str("bad token")
    /\ Get(exc, "name") = Str("SyntaxError")
    /\ exc = DOMException(Str("bad token"), Str("SyntaxError"))

====
